---- MODULE Spec2Model ----
(***************************************************************************)
(* Round-robin balancer over health-monitored HTTP connections.            *)
(*                                                                         *)
(*   HttpConnection  src/connection.go        (heartbeat, backoff, Close)  *)
(*   Balancer        src/unnamed/part_002     (Get, Connections,           *)
(*                                             NewBalancerFromURL)         *)
(*   HttpConnection  src/unnamed/part_000     (variant: HeartbeatDuration) *)
(*                                                                         *)
(* Durations are in milliseconds.  Pool positions are 1-based here, the    *)
(* cursor idx is 0-based as in the source: the candidate at cursor idx is  *)
(* conns[idx + 1].  An endpoint's URL is identified with its position.     *)
(***************************************************************************)
EXTENDS Integers, Sequences, FiniteSets, TLC

\* ------------------------------------------------------------ bounds
MaxConns == 3
NumCallers == 2
MaxFails == 4
MaxUrls == 2
MaxDurationCalls == 2

\* ------------------------------------------------- program constants
initialRetryInterval == 30000
maxRetryInterval == 300000
retryMultiplier == 2
testInitialRetryInterval == 100
testMaxRetryInterval == 500

VARIABLES
  conns,      \* Balancer.conns: sequence of connection kinds ("http" | "other")
  idx,        \* Balancer.idx
  holder,     \* owner of the Balancer mutex: 0 = free, g = caller g inside Get
  gi,         \* Get: loop counter i of the call in progress
  gconn,      \* Get: local conn (0 = nil, else pool position)
  broken,     \* HttpConnection.broken per pool position
  cur,        \* HttpConnection.currentRetryInterval
  wait,       \* duration handed to time.After by the heartbeat (0 = none yet)
  mu,         \* HttpConnection mutex owner: "free" | "hb" | "close"
  hb,         \* heartbeat goroutine position
  cl,         \* Close() call on the endpoint: "idle" | "locked" | "done"
  testMode,   \* package variable testMode
  snap,       \* last result of Connections() and the state of its clones
  obs,        \* observation: facts gathered during the Get in progress
  hist,       \* observation: results of the last Gets since liveness changed
  used,       \* observation: some Get has returned
  scen,       \* observation: progress along the two-endpoint scenario
  fails,      \* observation: consecutive failed probes, saturating
  modeStable, \* observation: SetTestMode has not switched the mode
  ctor,       \* the NewBalancerFromURL call that builds the pool, if any
  hc,         \* an HttpConnection of the HeartbeatDuration variant, if any
  calls       \* concurrent Get calls followed caller by caller, if any

balVars == <<conns, idx, holder, gi, gconn>>
connVars == <<broken, cur, wait, mu, hb, cl>>
obsVars == <<obs, hist, used, scen>>
vars == <<conns, idx, holder, gi, gconn, broken, cur, wait, mu, hb, cl,
          testMode, snap, obs, hist, used, scen, fails, modeStable,
          ctor, hc, calls>>

Kinds == {"http", "other"}
Callers == 1 .. NumCallers
Outcomes == {"status200", "status500", "transportError"}

HistLen == MaxConns + 1

Min(a, b) == IF a < b THEN a ELSE b

Pool == 1 .. Len(conns)
Http == {i \in Pool : conns[i] = "http"}
LiveSet == {i \in Pool : ~broken[i]}

\* ------------------------------------------------------ pure helpers

\* The initial interval chosen by NewHttpConnection.
InitialInterval(tm) == IF tm THEN testInitialRetryInterval ELSE initialRetryInterval

\* The ceiling used by getNextInterval.
MaxInterval(tm) == IF tm THEN testMaxRetryInterval ELSE maxRetryInterval

\* getNextInterval: the value stored in currentRetryInterval and returned.
NextIntervalNoReset(tm, b, c) ==
  Min(c * retryMultiplier, MaxInterval(tm))

NextInterval(tm, b, c) ==
  IF ~b THEN InitialInterval(tm)
  ELSE Min(c * retryMultiplier, MaxInterval(tm))

\* checkBroken: the value written to broken for a probe outcome.
ProbeBrokenOnErrorOnly(o) == o = "transportError"

ProbeBroken(o) == o # "status200"

\* heartbeat: where the goroutine goes on receiving from heartbeatStop.
AfterStopKeepsRunning == "next"

AfterStop == "exited"

\* Get: the cursor after examining the candidate at cursor i of n.
NextIdxStuck(i, n) == i

NextIdxSkipTwo(i, n) == (i + 2) % n

NextIdxNoWrap(i, n) == i + 1

NextIdx(i, n) == (i + 1) % n

\* Get: the loop condition.
LoopCondOffByOne(i, n) == i <= n

LoopCondShort(i, n) == i < n - 1

LoopCondOnce(i, n) == i < 1

LoopCond(i, n) == i < n

\* Get: whether a candidate whose IsBroken() returned b is taken.
TakesAny(b) == TRUE

TakesBroken(b) == b

Takes(b) == ~b

\* IsBroken: whether the read can be made with the connection's mutex in
\* state m (it takes no lock, so it always can).
IsBrokenNeedsLock(m) == m = "free"

IsBrokenReady(m) == TRUE

\* Connections: the clone made of pool entry i (0 stands for a nil entry).
\* Of the fields `*cr = *oc` copies, the clone keeps here the ones its exported
\* methods read: url, broken, the embedded Mutex (copied in whatever state it
\* is in) and heartbeatStop, a channel, which the clone therefore shares with
\* the original (it is the channel of pool position url).
NilItem == [nil |-> TRUE, url |-> 0, broken |-> FALSE, locked |-> FALSE,
            st |-> "idle"]

Clone(i) ==
  IF conns[i] = "http"
  THEN [nil |-> FALSE, url |-> i, broken |-> broken[i],
        locked |-> mu[i] # "free", st |-> "idle"]
  ELSE NilItem

\* ------------------------------------------------------ observation

NoObs == [liveAll |-> {}, everLive |-> {}, start |-> 0, checks |-> 0,
          seenBroken |-> FALSE, dirty |-> FALSE, nbroken |-> 0, closed |-> {}]

ScenOff == 0 - 1

\* The scenario advances on every completed Get while it is followed.
ScenGet(s) == IF s \in {0, 1, 2, 4, 5, 7, 8, 9} THEN s + 1 ELSE ScenOff

\* ... and on the two liveness changes it names; any other change leaves it.
ScenFlag(s, i, v, byProbe) ==
  IF broken[i] = v THEN s
  ELSE IF holder # 0 \/ ~byProbe THEN ScenOff
  ELSE IF s = 3 /\ i = 1 /\ v THEN 4
  ELSE IF s = 6 /\ i = 1 /\ ~v THEN 7
  ELSE ScenOff

\* What the observers record when broken[i] is written with v.
Observe(i, v, byProbe) ==
  /\ hist' = IF broken[i] # v THEN <<>> ELSE hist
  /\ obs' = IF holder = 0 THEN obs
            ELSE [obs EXCEPT !.liveAll = IF v THEN @ \ {i} ELSE @,
                             !.everLive = IF v THEN @ ELSE @ \cup {i},
                             !.dirty = @ \/ (broken[i] # v)]
  /\ scen' = ScenFlag(scen, i, v, byProbe)
  /\ UNCHANGED used

\* ------------------------------------------------------------- Init

\* The pools of at most n connections.
Pools(n) == UNION {[1 .. k -> Kinds] : k \in 0 .. n}

\* No NewBalancerFromURL call, no connection of the HeartbeatDuration
\* variant, no caller followed separately.
NoCtor == [st |-> "none", urls |-> <<>>, initial |-> 0, max |-> 0, err |-> "",
           out |-> "none", probes |-> 0]

NoHc == [st |-> "none", broken |-> FALSE, mu |-> "free", dur |-> "",
         loops |-> <<>>, cl |-> "idle", hd |-> "idle", arg |-> "", calls |-> 0]

NoCalls == <<>>

\* NewBalancer over connections built by NewHttpConnection (one synchronous
\* probe, then `go c.heartbeat()`) or over another Connection implementation,
\* the pool drawn from pools and the test mode at construction from modes.
InitPool(pools, modes) ==
  /\ conns \in pools
  /\ idx = 0
  /\ holder = 0
  /\ gi = 0
  /\ gconn = 0
  /\ testMode \in modes
  /\ broken \in [Pool -> BOOLEAN]
  /\ cur = [i \in Pool |-> IF conns[i] = "http" THEN InitialInterval(testMode) ELSE 0]
  /\ wait = [i \in Pool |-> 0]
  /\ mu = [i \in Pool |-> "free"]
  /\ hb = [i \in Pool |-> IF conns[i] = "http" THEN "next" ELSE "none"]
  /\ cl = [i \in Pool |-> "idle"]
  /\ snap = [taken |-> FALSE, items |-> <<>>]
  /\ obs = NoObs
  /\ hist = <<>>
  /\ used = FALSE
  /\ scen = IF Len(conns) = 2 /\ \A i \in Pool : ~broken[i] THEN 0 ELSE ScenOff
  /\ fails = [i \in Pool |-> IF conns[i] = "http" /\ broken[i] THEN 1 ELSE 0]
  /\ modeStable = TRUE

InitOver(pools, modes) ==
  /\ InitPool(pools, modes)
  /\ ctor = NoCtor
  /\ hc = NoHc
  /\ calls = NoCalls

\* ------------------------------------------------- HttpConnection

\* heartbeat: evaluating c.getNextInterval() for time.After (Lock .. Unlock).
getNextInterval(i) ==
  /\ hb[i] = "next"
  /\ mu[i] = "free"
  /\ cur' = [cur EXCEPT ![i] = NextInterval(testMode, broken[i], cur[i])]
  /\ wait' = [wait EXCEPT ![i] = NextInterval(testMode, broken[i], cur[i])]
  /\ hb' = [hb EXCEPT ![i] = "select"]
  /\ UNCHANGED <<balVars, broken, mu, cl, testMode, snap, obsVars, fails, modeStable>>
  /\ UNCHANGED <<ctor, hc, calls>>

\* heartbeat: the timer case of the select is taken; checkBroken is called.
timerFires(i) ==
  /\ hb[i] = "select"
  /\ hb' = [hb EXCEPT ![i] = "check"]
  /\ UNCHANGED <<balVars, broken, cur, wait, mu, cl, testMode, snap, obsVars,
                 fails, modeStable>>
  /\ UNCHANGED <<ctor, hc, calls>>

\* checkBroken: c.Lock().
checkBrokenLock(i) ==
  /\ hb[i] = "check"
  /\ mu[i] = "free"
  /\ mu' = [mu EXCEPT ![i] = "hb"]
  /\ hb' = [hb EXCEPT ![i] = "probing"]
  /\ UNCHANGED <<balVars, broken, cur, wait, cl, testMode, snap, obsVars,
                 fails, modeStable>>
  /\ UNCHANGED <<ctor, hc, calls>>

\* checkBroken: the request completes, broken is written, deferred Unlock.
checkBroken(i, o) ==
  /\ hb[i] = "probing"
  /\ broken' = [broken EXCEPT ![i] = ProbeBroken(o)]
  /\ mu' = [mu EXCEPT ![i] = "free"]
  /\ hb' = [hb EXCEPT ![i] = "next"]
  /\ fails' = [fails EXCEPT ![i] = IF ProbeBroken(o) THEN Min(@ + 1, MaxFails) ELSE 0]
  /\ Observe(i, ProbeBroken(o), TRUE)
  /\ UNCHANGED <<balVars, cur, wait, cl, testMode, snap, modeStable>>
  /\ UNCHANGED <<ctor, hc, calls>>

\* Close: c.Lock().
CloseLock(i) ==
  /\ conns[i] = "http"
  /\ cl[i] = "idle"
  /\ mu[i] = "free"
  /\ mu' = [mu EXCEPT ![i] = "close"]
  /\ cl' = [cl EXCEPT ![i] = "locked"]
  /\ UNCHANGED <<balVars, broken, cur, wait, hb, testMode, snap, obsVars,
                 fails, modeStable>>
  /\ UNCHANGED <<ctor, hc, calls>>

\* Close: the send on the unbuffered heartbeatStop meets the heartbeat's
\* receive in its select; then broken = false, deferred Unlock, return.
Close(i) ==
  /\ cl[i] = "locked"
  /\ hb[i] = "select"
  /\ hb' = [hb EXCEPT ![i] = AfterStop]
  /\ broken' = [broken EXCEPT ![i] = FALSE]
  /\ mu' = [mu EXCEPT ![i] = "free"]
  /\ cl' = [cl EXCEPT ![i] = "done"]
  /\ Observe(i, FALSE, FALSE)
  /\ UNCHANGED <<balVars, cur, wait, testMode, snap, fails, modeStable>>
  /\ UNCHANGED <<ctor, hc, calls>>

\* SetTestMode(enabled), switching the mode.
SetTestMode(enabled) ==
  /\ enabled # testMode
  /\ testMode' = enabled
  /\ modeStable' = FALSE
  /\ UNCHANGED <<balVars, connVars, snap, obsVars, fails>>
  /\ UNCHANGED <<ctor, hc, calls>>

\* A Connection implementation other than HttpConnection reports a new state.
otherIsBroken(i, v) ==
  /\ conns[i] = "other"
  /\ broken[i] # v
  /\ broken' = [broken EXCEPT ![i] = v]
  /\ Observe(i, v, TRUE)
  /\ UNCHANGED <<balVars, cur, wait, mu, hb, cl, testMode, snap, fails, modeStable>>
  /\ UNCHANGED <<ctor, hc, calls>>

\* ---------------------------------------------------------- Balancer

\* What the observers record when a Get returns conn c (0 = nil, returned
\* together with ErrNoConn).
Returned(c) ==
  /\ hist' = IF obs.dirty THEN <<>>
             ELSE Append(IF Len(hist) < HistLen THEN hist ELSE Tail(hist), c)
  /\ used' = TRUE
  /\ scen' = ScenGet(scen)
  /\ obs' = NoObs

\* Get: b.Lock(); an empty pool returns ErrNoConn at once.
GetLock(g) ==
  /\ holder = 0
  /\ IF Len(conns) = 0
     THEN /\ Returned(0)
          /\ UNCHANGED <<holder, gi, gconn>>
     ELSE /\ holder' = g
          /\ gi' = 0
          /\ gconn' = 0
          /\ obs' = [liveAll |-> LiveSet, everLive |-> LiveSet, start |-> idx,
                     checks |-> 0, seenBroken |-> FALSE, dirty |-> FALSE,
                     nbroken |-> 0, closed |-> {i \in Pool : cl[i] = "done"}]
          /\ UNCHANGED <<hist, used, scen>>
  /\ UNCHANGED <<conns, idx, connVars, testMode, snap, fails, modeStable>>
  /\ UNCHANGED <<ctor, hc, calls>>

\* Get: one iteration of the loop: take the candidate at the cursor, advance
\* the cursor, read candidate.IsBroken() (no lock is taken for the read).
GetStep ==
  /\ holder # 0
  /\ gconn = 0
  /\ LoopCond(gi, Len(conns))
  /\ IsBrokenReady(mu[idx + 1])
  /\ idx' = NextIdx(idx, Len(conns))
  /\ IF Takes(broken[idx + 1])
     THEN /\ gconn' = idx + 1
          /\ gi' = gi
     ELSE /\ gconn' = 0
          /\ gi' = gi + 1
  /\ obs' = [obs EXCEPT !.checks = @ + 1, !.seenBroken = broken[idx + 1],
                         !.nbroken = IF broken[idx + 1] THEN @ + 1 ELSE @]
  /\ UNCHANGED <<conns, holder, connVars, testMode, snap, hist, used, scen,
                 fails, modeStable>>
  /\ UNCHANGED <<ctor, hc, calls>>

\* Get: the loop is over (break, or the loop condition fails): the call is
\* at its return statement and gconn is what it returns (0: nil, ErrNoConn).
GetDone == holder # 0 /\ (gconn # 0 \/ ~LoopCond(gi, Len(conns)))

\* Get: return conn or ErrNoConn; deferred b.Unlock().
GetReturn ==
  /\ GetDone
  /\ Returned(gconn)
  /\ holder' = 0
  /\ gi' = 0
  /\ gconn' = 0
  /\ UNCHANGED <<conns, idx, connVars, testMode, snap, fails, modeStable>>
  /\ UNCHANGED <<ctor, hc, calls>>

\* Connections: under b.Lock(), a slice of len(b.conns) entries; an entry is
\* filled with a clone only where the type assertion to *HttpConnection holds.
Connections ==
  /\ holder = 0
  /\ snap' = [taken |-> TRUE, items |-> [i \in Pool |-> Clone(i)]]
  /\ UNCHANGED <<balVars, connVars, testMode, obsVars, fails, modeStable>>
  /\ UNCHANGED <<ctor, hc, calls>>

\* Close on a clone returned by Connections: c.Lock() on the clone's Mutex.
CloneCloseLock(j) ==
  /\ snap.taken
  /\ ~snap.items[j].nil
  /\ snap.items[j].st = "idle"
  /\ ~snap.items[j].locked
  /\ snap' = [snap EXCEPT !.items[j].locked = TRUE, !.items[j].st = "locked"]
  /\ UNCHANGED <<balVars, connVars, testMode, obsVars, fails, modeStable>>
  /\ UNCHANGED <<ctor, hc, calls>>

\* Close on a clone: the send on the shared heartbeatStop is received by the
\* heartbeat of the pool's connection; the clone's broken = false; Unlock.
CloneClose(j) ==
  /\ snap.taken
  /\ ~snap.items[j].nil
  /\ snap.items[j].st = "locked"
  /\ hb[snap.items[j].url] = "select"
  /\ hb' = [hb EXCEPT ![snap.items[j].url] = AfterStop]
  /\ snap' = [snap EXCEPT !.items[j].broken = FALSE, !.items[j].locked = FALSE,
                          !.items[j].st = "done"]
  /\ UNCHANGED <<balVars, broken, cur, wait, mu, cl, testMode, obsVars, fails,
                 modeStable>>
  /\ UNCHANGED <<ctor, hc, calls>>

\* ------------------------------------------------ NewBalancerFromURL

\* The interval options a call may carry: negative, zero, the two defaults.
OptionDurations == {0 - 1, 0, initialRetryInterval, maxRetryInterval}

\* A raw URL is followed only as far as url.Parse: it parses or it does not.
RawUrls == {"ok", "bad"}

UrlLists == UNION {[1 .. k -> RawUrls] : k \in 0 .. MaxUrls}

\* NewBalancerFromURL: the interval validation (none of its three checks
\* returns an error).
ValidOptionsNoOrder(i, m) == ~(i <= 0) /\ ~(m <= 0)

ValidOptions(i, m) == ~(i <= 0) /\ ~(m <= 0) /\ ~(m < i)

\* NewBalancerFromURL: options applied, the three interval checks made.
checkOptions ==
  /\ ctor.st = "options"
  /\ ctor' = IF ValidOptions(ctor.initial, ctor.max)
             THEN [ctor EXCEPT !.st = "loop"]
             ELSE [ctor EXCEPT !.st = "returned", !.err = "config"]
  /\ UNCHANGED <<balVars, connVars, testMode, snap, obsVars, fails, modeStable,
                 hc, calls>>

\* NewBalancerFromURL: the head of one loop iteration: the loop is over and
\* b is returned, or url.Parse fails and (nil, err) is returned, or the URL is
\* parsed and NewHttpConnection is entered.
parseUrl ==
  /\ ctor.st = "loop"
  /\ ctor' = IF ctor.urls = <<>> THEN [ctor EXCEPT !.st = "returned"]
             ELSE IF Head(ctor.urls) = "bad"
               THEN [ctor EXCEPT !.st = "returned", !.err = "parse"]
             ELSE [ctor EXCEPT !.st = "new", !.urls = Tail(@), !.probes = 0,
                               !.out = "none"]
  /\ UNCHANGED <<balVars, connVars, testMode, snap, obsVars, fails, modeStable,
                 hc, calls>>

\* NewHttpConnection: the struct is built and c.checkBroken() runs to its
\* end with outcome o; no goroutine of c exists yet.
newHttpConnectionCheck(o) ==
  /\ ctor.st = "new"
  /\ broken' = Append(broken, ProbeBroken(o))
  /\ cur' = Append(cur, InitialInterval(testMode))
  /\ wait' = Append(wait, 0)
  /\ mu' = Append(mu, "free")
  /\ hb' = Append(hb, "none")
  /\ cl' = Append(cl, "idle")
  /\ fails' = Append(fails, IF ProbeBroken(o) THEN 1 ELSE 0)
  /\ ctor' = [ctor EXCEPT !.st = "probed", !.out = o, !.probes = @ + 1]
  /\ UNCHANGED <<balVars, testMode, snap, obsVars, modeStable, hc, calls>>

\* NewHttpConnection: `go c.heartbeat()` and return; NewBalancerFromURL
\* appends the connection to b.conns.
newHttpConnectionGo ==
  /\ ctor.st = "probed"
  /\ hb' = [hb EXCEPT ![Len(hb)] = "next"]
  /\ conns' = Append(conns, "http")
  /\ ctor' = [ctor EXCEPT !.st = "loop"]
  /\ UNCHANGED <<idx, holder, gi, gconn, broken, cur, wait, mu, cl, testMode,
                 snap, obsVars, fails, modeStable, hc, calls>>

\* A NewBalancerFromURL call about to validate its options, no connection
\* existing yet.
InitCtor ==
  /\ InitPool({<<>>}, {FALSE})
  /\ ctor \in [st : {"options"}, urls : UrlLists, initial : OptionDurations,
               max : OptionDurations, err : {""}, out : {"none"}, probes : {0}]
  /\ hc = NoHc
  /\ calls = NoCalls

\* The call and the heartbeats of the connections it has created.
NextCtor ==
  \/ checkOptions
  \/ parseUrl
  \/ \E o \in Outcomes : newHttpConnectionCheck(o)
  \/ newHttpConnectionGo
  \/ \E i \in Pool : getNextInterval(i)
  \/ \E i \in Pool : timerFires(i)
  \/ \E i \in Pool : checkBrokenLock(i)
  \/ \E i \in Pool, o \in Outcomes : checkBroken(i, o)

SpecCtor == InitCtor /\ [][NextCtor]_vars

\* ------------------------- HttpConnection with HeartbeatDuration
\* (src/unnamed/part_000).  hc.loops lists the heartbeat goroutines started
\* on the connection, each with its position and the period of its ticker.

DurationArgs == {"2s", "3s"}

\* heartbeat: where the goroutine goes on receiving from heartbeatStop.
TickerAfterStopGoesOn == "select"

TickerAfterStop == "exited"

\* `go c.heartbeat()`: a new goroutine at the top of heartbeat.
StartLoop(loops) == Append(loops, [pc |-> "start", period |-> ""])

\* heartbeat: ticker := time.NewTicker(c.heartbeatDuration).
hcNewTicker(k) ==
  /\ hc.loops[k].pc = "start"
  /\ hc' = [hc EXCEPT !.loops[k] = [pc |-> "select", period |-> hc.dur]]
  /\ UNCHANGED <<balVars, connVars, testMode, snap, obsVars, fails, modeStable,
                 ctor, calls>>

\* heartbeat: the ticker case of the select is taken; checkBroken is called.
hcTick(k) ==
  /\ hc.loops[k].pc = "select"
  /\ hc' = [hc EXCEPT !.loops[k].pc = "check"]
  /\ UNCHANGED <<balVars, connVars, testMode, snap, obsVars, fails, modeStable,
                 ctor, calls>>

\* checkBroken: c.Lock().
hcCheckBrokenLock(k) ==
  /\ hc.loops[k].pc = "check"
  /\ hc.mu = "free"
  /\ hc' = [hc EXCEPT !.loops[k].pc = "probing", !.mu = "hb"]
  /\ UNCHANGED <<balVars, connVars, testMode, snap, obsVars, fails, modeStable,
                 ctor, calls>>

\* checkBroken: the request completes, broken is written, deferred Unlock.
hcCheckBroken(k, o) ==
  /\ hc.loops[k].pc = "probing"
  /\ hc' = [hc EXCEPT !.loops[k].pc = "select", !.mu = "free",
                      !.broken = ProbeBroken(o)]
  /\ UNCHANGED <<balVars, connVars, testMode, snap, obsVars, fails, modeStable,
                 ctor, calls>>

\* Close: c.Lock().
hcCloseLock ==
  /\ hc.st = "built"
  /\ hc.cl = "idle"
  /\ hc.mu = "free"
  /\ hc' = [hc EXCEPT !.cl = "locked", !.mu = "close"]
  /\ UNCHANGED <<balVars, connVars, testMode, snap, obsVars, fails, modeStable,
                 ctor, calls>>

\* Close: the send on heartbeatStop is received by goroutine k in its
\* select; broken = false; deferred Unlock; return.
hcClose(k) ==
  /\ hc.cl = "locked"
  /\ hc.loops[k].pc = "select"
  /\ hc' = [hc EXCEPT !.loops[k].pc = TickerAfterStop, !.broken = FALSE,
                      !.mu = "free", !.cl = "done"]
  /\ UNCHANGED <<balVars, connVars, testMode, snap, obsVars, fails, modeStable,
                 ctor, calls>>

\* HeartbeatDuration(d): c.Lock().
hcHeartbeatDurationLock(d) ==
  /\ hc.st = "built"
  /\ hc.hd = "idle"
  /\ hc.calls < MaxDurationCalls
  /\ hc.mu = "free"
  /\ hc' = [hc EXCEPT !.hd = "locked", !.mu = "hd", !.arg = d, !.calls = @ + 1]
  /\ UNCHANGED <<balVars, connVars, testMode, snap, obsVars, fails, modeStable,
                 ctor, calls>>

\* HeartbeatDuration: the send on heartbeatStop is received by goroutine k in
\* its select; broken = false; heartbeatDuration = d; `go c.heartbeat()`;
\* deferred Unlock; return.
hcHeartbeatDuration(k) ==
  /\ hc.hd = "locked"
  /\ hc.loops[k].pc = "select"
  /\ hc' = [hc EXCEPT !.loops = StartLoop([@ EXCEPT ![k].pc = TickerAfterStop]),
                      !.broken = FALSE, !.dur = hc.arg, !.arg = "",
                      !.mu = "free", !.hd = "idle"]
  /\ UNCHANGED <<balVars, connVars, testMode, snap, obsVars, fails, modeStable,
                 ctor, calls>>

\* After NewHttpConnection of this variant: one probe made, the first
\* heartbeat goroutine started with the default duration.
InitHc ==
  /\ InitPool({<<>>}, {FALSE})
  /\ ctor = NoCtor
  /\ calls = NoCalls
  /\ hc \in [st : {"built"}, broken : BOOLEAN, mu : {"free"},
             dur : {"DefaultHeartbeatDuration"}, loops : {StartLoop(<<>>)},
             cl : {"idle"}, hd : {"idle"}, arg : {""}, calls : {0}]

NextHc ==
  \/ \E k \in DOMAIN hc.loops : hcNewTicker(k)
  \/ \E k \in DOMAIN hc.loops : hcTick(k)
  \/ \E k \in DOMAIN hc.loops : hcCheckBrokenLock(k)
  \/ \E k \in DOMAIN hc.loops, o \in Outcomes : hcCheckBroken(k, o)
  \/ hcCloseLock
  \/ \E k \in DOMAIN hc.loops : hcClose(k)
  \/ \E d \in DurationArgs : hcHeartbeatDurationLock(d)
  \/ \E k \in DOMAIN hc.loops : hcHeartbeatDuration(k)

SpecHc == InitHc /\ [][NextHc]_vars

\* ------------------------------------- Get, caller by caller
\* The same Get (src/unnamed/part_002:115-137) statement by statement, each
\* caller with its own locals i, candidate and conn, so that what the mutex
\* excludes is visible.

\* sync.Mutex.Lock: whether the lock can be taken.
MutexAlwaysFree(h) == TRUE

MutexFree(h) == h = 0

IdleCall == [pc |-> "idle", i |-> 0, cand |-> 0, conn |-> 0, res |-> 0]

\* Get: b.Lock(); an empty pool goes straight to return ErrNoConn.
callLock(g) ==
  /\ calls[g].pc = "idle"
  /\ MutexFree(holder)
  /\ holder' = g
  /\ calls' = [calls EXCEPT ![g].pc = IF Len(conns) = 0 THEN "return" ELSE "loop"]
  /\ UNCHANGED <<conns, idx, gi, gconn, connVars, testMode, snap, obsVars, fails,
                 modeStable, ctor, hc>>

\* Get: the loop condition; candidate := b.conns[b.idx].
callPick(g) ==
  /\ calls[g].pc = "loop"
  /\ calls' = IF LoopCond(calls[g].i, Len(conns))
              THEN [calls EXCEPT ![g].pc = "picked", ![g].cand = idx + 1]
              ELSE [calls EXCEPT ![g].pc = "return"]
  /\ UNCHANGED <<balVars, connVars, testMode, snap, obsVars, fails, modeStable,
                 ctor, hc>>

\* Get: b.idx = (b.idx + 1) % len(b.conns).
callAdvance(g) ==
  /\ calls[g].pc = "picked"
  /\ idx' = NextIdx(idx, Len(conns))
  /\ calls' = [calls EXCEPT ![g].pc = "check"]
  /\ UNCHANGED <<conns, holder, gi, gconn, connVars, testMode, snap, obsVars,
                 fails, modeStable, ctor, hc>>

\* Get: if !candidate.IsBroken() { conn = candidate; break }, else i++.
callCheck(g) ==
  /\ calls[g].pc = "check"
  /\ calls' = IF Takes(broken[calls[g].cand])
              THEN [calls EXCEPT ![g].pc = "return", ![g].conn = calls[g].cand]
              ELSE [calls EXCEPT ![g].pc = "loop", ![g].i = @ + 1]
  /\ UNCHANGED <<balVars, connVars, testMode, snap, obsVars, fails, modeStable,
                 ctor, hc>>

\* Get: return conn (0: nil with ErrNoConn); deferred b.Unlock().
callReturn(g) ==
  /\ calls[g].pc = "return"
  /\ calls' = [calls EXCEPT ![g].pc = "done", ![g].res = calls[g].conn]
  /\ holder' = 0
  /\ UNCHANGED <<conns, idx, gi, gconn, connVars, testMode, snap, obsVars, fails,
                 modeStable, ctor, hc>>

\* NumCallers goroutines about to call Get on a fresh Balancer whose
\* endpoints keep the liveness they have.
InitCalls ==
  /\ InitPool({c \in Pools(MaxConns) : \A i \in DOMAIN c : c[i] = "other"}, {FALSE})
  /\ ctor = NoCtor
  /\ hc = NoHc
  /\ calls = [g \in Callers |-> IdleCall]

NextCalls ==
  \/ \E g \in Callers : callLock(g)
  \/ \E g \in Callers : callPick(g)
  \/ \E g \in Callers : callAdvance(g)
  \/ \E g \in Callers : callCheck(g)
  \/ \E g \in Callers : callReturn(g)

SpecCalls == InitCalls /\ [][NextCalls]_vars

\* ------------------------------------------------------------- Next

Next ==
  \/ \E i \in Pool : getNextInterval(i)
  \/ \E i \in Pool : timerFires(i)
  \/ \E i \in Pool : checkBrokenLock(i)
  \/ \E i \in Pool, o \in Outcomes : checkBroken(i, o)
  \/ \E i \in Pool : CloseLock(i)
  \/ \E i \in Pool : Close(i)
  \/ \E e \in BOOLEAN : SetTestMode(e)
  \/ \E i \in Pool, v \in BOOLEAN : otherIsBroken(i, v)
  \/ \E g \in Callers : GetLock(g)
  \/ GetStep
  \/ GetReturn
  \/ Connections
  \/ \E j \in Pool : CloneCloseLock(j)
  \/ \E j \in Pool : CloneClose(j)

\* Every operation, on a pool of at most one connection.
Init == InitOver(Pools(1), BOOLEAN)

Spec == Init /\ [][Next]_vars

\* The Balancer over pools of up to MaxConns connections.  Get reaches a
\* connection only through IsBroken(); an "other" implementation may change
\* its answer at any time, which covers every way an HttpConnection changes
\* its own, so one HttpConnection per pool is followed through its heartbeat
\* and Close and the rest of the pool are "other" implementations.
InitBal ==
  InitOver({c \in Pools(MaxConns) : Cardinality({i \in DOMAIN c : c[i] = "http"}) <= 1},
           {FALSE})

NextBal ==
  \/ \E i \in Pool : getNextInterval(i)
  \/ \E i \in Pool : timerFires(i)
  \/ \E i \in Pool : checkBrokenLock(i)
  \/ \E i \in Pool, o \in Outcomes : checkBroken(i, o)
  \/ \E i \in Pool : CloseLock(i)
  \/ \E i \in Pool : Close(i)
  \/ \E i \in Pool, v \in BOOLEAN : otherIsBroken(i, v)
  \/ \E g \in Callers : GetLock(g)
  \/ GetStep
  \/ GetReturn

SpecBal == InitBal /\ [][NextBal]_vars

\* A pool of exactly two connections (NewBalancerFromURL over two URLs, or
\* NewBalancer over two Connection values), under the same operations.
InitPair == InitOver([1 .. 2 -> Kinds], {FALSE})

SpecPair == InitPair /\ [][NextBal]_vars

\* The Balancer's own operations, Get and Connections, on pools of up to
\* MaxConns connections whose IsBroken() answers change at any time.
NextCursor ==
  \/ \E i \in Pool, v \in BOOLEAN : otherIsBroken(i, v)
  \/ \E g \in Callers : GetLock(g)
  \/ GetStep
  \/ GetReturn
  \/ Connections

SpecCursor == InitBal /\ [][NextCursor]_vars

\* ---------------------------------------------------------- claims

AllLive == Pool # {} /\ \A i \in Pool : ~broken[i]

\* The first live endpoint after pool position i, in rotating pool order.
NextLive(i) ==
  LET n == Len(conns)
      at(d) == ((i - 1 + d) % n) + 1
      d0 == CHOOSE d \in 1 .. n : ~broken[at(d)] /\ \A e \in 1 .. (d - 1) : broken[at(e)]
  IN at(d0)

\* The results of the |w| Gets hist[s], .., hist[s + w - 1].
Run(s, w) == {hist[k] : k \in s .. (s + w - 1)}

\* C1: on a pool of N >= 1 endpoints that all stay live, consecutive Gets
\* return the endpoints in construction order, each Get the endpoint at the
\* cursor (the first Get of a fresh balancer the first endpoint), any N
\* consecutive Gets return each endpoint exactly once, and the (N+1)th Get
\* returns what the 1st returned.
C1_RoundRobinAllLive ==
  AllLive =>
    LET n == Len(conns) IN
    /\ \A k \in 1 .. Len(hist) : hist[k] \in Pool
    /\ \A k \in 1 .. (Len(hist) - 1) : hist[k + 1] = (hist[k] % n) + 1
    /\ \A s \in 1 .. Len(hist) :
         s + n - 1 <= Len(hist) => Cardinality(Run(s, n)) = n /\ Run(s, n) = Pool
    /\ \A s \in 1 .. Len(hist) : s + n <= Len(hist) => hist[s + n] = hist[s]
    /\ (GetDone /\ ~obs.dirty) => gconn = obs.start + 1
    /\ (GetDone /\ ~obs.dirty /\ ~used) => gconn = 1

C1_Witness ==
  AllLive /\ Len(conns) = 3 /\ Len(hist) = 4 /\ hist[1] = 2

\* C2: while liveness does not change and the set L of live endpoints is not
\* empty, consecutive Gets return only members of L, each the next live
\* endpoint in pool order after the one before, so any |L| consecutive Gets
\* return each live endpoint exactly once; with one live endpoint every Get
\* returns it.
C2_LiveOnlyRotation ==
  LiveSet # {} =>
    LET w == Cardinality(LiveSet) IN
    /\ \A k \in 1 .. Len(hist) : hist[k] \in LiveSet
    /\ \A k \in 1 .. (Len(hist) - 1) : hist[k + 1] = NextLive(hist[k])
    /\ \A s \in 1 .. Len(hist) :
         s + w - 1 <= Len(hist) => Cardinality(Run(s, w)) = w /\ Run(s, w) = LiveSet
    /\ w = 1 => \A k \in 1 .. Len(hist) : LiveSet = {hist[k]}
    /\ (GetDone /\ ~obs.dirty) => gconn \in LiveSet

C2_Witness ==
  /\ Len(conns) = 3
  /\ LiveSet = {1, 3}
  /\ Len(hist) = 4
  /\ hist[1] = 3

\* C3 as stated: Get returns ErrNoConn on an empty pool and when every
\* endpoint is broken during the call, and when some endpoint is live for the
\* whole call it returns a non-nil endpoint that is not broken when returned.
C3_ReturnedNotBroken ==
  /\ Len(conns) = 0 => \A k \in 1 .. Len(hist) : hist[k] = 0
  /\ GetDone =>
       /\ obs.everLive = {} => gconn = 0
       /\ obs.liveAll # {} => gconn # 0 /\ ~broken[gconn]

\* C3 amended: ... when some endpoint is live for the whole call Get returns
\* a non-nil endpoint that was not broken when Get read its IsBroken().
C3_ErrNoConnOnlyWithoutLive ==
  /\ Len(conns) = 0 => \A k \in 1 .. Len(hist) : hist[k] = 0
  /\ GetDone =>
       /\ obs.everLive = {} => gconn = 0
       /\ obs.liveAll # {} => gconn # 0 /\ ~obs.seenBroken

C3_Witness ==
  /\ GetDone
  /\ obs.dirty
  /\ obs.liveAll # {}
  /\ obs.checks = 2
  /\ broken[gconn]

\* C4: a Get makes at most N IsBroken checks, N the pool size, and is at its
\* return statement once it has made N, whatever the endpoints' liveness does
\* during the scan.
C4_AtMostNChecks ==
  holder # 0 =>
    /\ obs.checks <= Len(conns)
    /\ gi <= Len(conns)
    /\ obs.checks = Len(conns) => GetDone /\ ~ENABLED GetStep

C4_Witness ==
  /\ GetDone
  /\ Len(conns) = 3
  /\ obs.checks = 3
  /\ gconn = 0
  /\ obs.dirty

\* What the scenario expects of the Get that ends stage s.
ScenExpect(s) == IF s \in {0, 2, 7, 9} THEN 1 ELSE 2

\* C5: pool [A, B], both live: three Gets return A, B, A; once A is marked
\* not-live the next two Gets return B, B; once A is probed live again the
\* next Gets return A, B, A.
C5_Scenario ==
  (GetDone /\ scen \in {0, 1, 2, 4, 5, 7, 8, 9}) => gconn = ScenExpect(scen)

C5_Witness == scen = 10 /\ conns = <<"http", "http">>

\* The wait getNextInterval computes after k consecutive failed probes.
Backoff(tm, k) ==
  IF k = 0 THEN InitialInterval(tm)
  ELSE Min((2 ^ k) * InitialInterval(tm), MaxInterval(tm))

\* C6: with the initial interval I and the ceiling max of the mode the
\* connection has run in throughout, the wait before the next probe is I after
\* a successful probe, 2I after a first failed probe, min(4I, max) after a
\* second consecutive one, and doubles up to max with each further one.
C6_ExponentialBackoff ==
  \A i \in Http :
    (modeStable /\ hb[i] \in {"select", "check", "probing", "exited"} /\ wait[i] # 0) =>
      /\ wait[i] = Backoff(testMode, fails[i])
      /\ cur[i] = wait[i]
      /\ fails[i] = 0 => wait[i] = InitialInterval(testMode)
      /\ fails[i] = 1 => wait[i] = 2 * InitialInterval(testMode)
      /\ fails[i] = 2 => wait[i] = Min(4 * InitialInterval(testMode), MaxInterval(testMode))
      /\ fails[i] = MaxFails => wait[i] = MaxInterval(testMode)

C6_Witness ==
  \E i \in Http :
    /\ modeStable
    /\ testMode
    /\ hb[i] = "select"
    /\ fails[i] = 3
    /\ wait[i] = testMaxRetryInterval

\* C7: once Close() on a connection has returned, its heartbeat has exited,
\* no probe is running, and broken and currentRetryInterval are not written
\* again.
C7_NoProbeAfterClose ==
  [][\A i \in Pool :
       cl[i] = "done" =>
         /\ hb[i] = "exited" /\ hb'[i] = "exited"
         /\ mu[i] # "hb" /\ mu'[i] # "hb"
         /\ broken'[i] = broken[i]
         /\ cur'[i] = cur[i]]_vars

C7_Witness ==
  \E i \in Http : cl[i] = "done" /\ hb[i] = "exited" /\ fails[i] = 2

\* C8: a Close() call is never stuck holding the connection's lock on its
\* send while the running heartbeat waits for that lock in getNextInterval or
\* checkBroken, so the call returns.
C8_CloseReturns ==
  \A i \in Http : ~(cl[i] = "locked" /\ hb[i] \in {"next", "check"})

\* C9: no operation on an item returned by Connections() changes the
\* liveness flag, the retry interval, the lock or the heartbeat of a pool
\* connection, or the cursor.
C9_ClonesShareNothing ==
  [][\A j \in Pool :
       (CloneCloseLock(j) \/ CloneClose(j)) => UNCHANGED <<broken, cur, mu, hb, idx>>]_vars

\* C10: Connections() returns one non-nil entry per pool connection, in pool
\* order, with that connection's URL and liveness.
C10_ConnectionsListsAll ==
  [][Connections =>
       /\ DOMAIN snap'.items = Pool
       /\ \A i \in Pool :
            /\ ~snap'.items[i].nil
            /\ snap'.items[i].url = i
            /\ snap'.items[i].broken = broken[i]]_vars

\* C17: in every state of a Balancer the cursor satisfies 0 <= idx <
\* len(conns) when the pool is not empty and idx = 0 when it is empty, and no
\* step of Get or of Connections takes it out of that range.
C17_CursorInRange ==
  /\ idx \in Nat
  /\ Len(conns) > 0 => idx < Len(conns)
  /\ Len(conns) = 0 => idx = 0

C17_Witness ==
  /\ Len(conns) = 3
  /\ snap.taken
  /\ idx = 0
  /\ holder # 0
  /\ obs.start = 2
  /\ obs.checks = 1

\* C18: a Get that starts with the cursor at c and succeeds returns
\* conns[(c + k) mod N] for the smallest k in 0 .. N-1 whose endpoint it
\* observed not broken (the k candidates before it were each observed
\* broken), and leaves the cursor at (c + k + 1) mod N.
C18_GetFromCursor ==
  (GetDone /\ gconn # 0) =>
    LET n == Len(conns)
        c == obs.start
        k == obs.checks - 1
    IN /\ k \in 0 .. (n - 1)
       /\ gconn = ((c + k) % n) + 1
       /\ idx = (c + k + 1) % n
       /\ obs.nbroken = k
       /\ ~obs.seenBroken
       /\ ~obs.dirty =>
            /\ ~broken[gconn]
            /\ \A j \in 0 .. (k - 1) : broken[((c + j) % n) + 1]

C18_Witness ==
  /\ GetDone
  /\ Len(conns) = 3
  /\ obs.start = 2
  /\ obs.checks = 3
  /\ gconn = 2
  /\ idx = 2
  /\ ~obs.dirty

\* C13: a Get that begins after Close() on a pool member has returned never
\* returns that member.
C13_ClosedNotReturned ==
  (GetDone /\ gconn # 0) => gconn \notin obs.closed

\* C20: IsBroken() reads the liveness flag holding the connection's lock, so
\* no read of the flag (Get makes one per candidate) is made while checkBroken
\* or Close holds that lock around its write; and the read changes nothing of
\* the connection.
C20_IsBrokenUnderLock ==
  [][GetStep => /\ mu[idx + 1] = "free"
                /\ UNCHANGED connVars]_vars

\* C15: in every reachable state currentRetryInterval lies between the
\* initial interval and the ceiling of the interval configuration in force,
\* after any sequence of probes and getNextInterval calls and also when
\* SetTestMode switches the mode during the connection's life.
C15_IntervalInRange ==
  \A i \in Http :
    /\ InitialInterval(testMode) <= cur[i]
    /\ cur[i] <= MaxInterval(testMode)

\* C11: when NewBalancerFromURL has failed on an address that does not
\* parse, no heartbeat loop is running: no connection was created, or every
\* one created for an earlier address has been stopped.
C11_NoLoopLeftRunning ==
  (ctor.st = "returned" /\ ctor.err = "parse") =>
    \A i \in DOMAIN hb : hb[i] \in {"none", "exited"}

\* C12: NewBalancerFromURL returns an error, having created no connection
\* (no probe made, no loop started), whenever the options carry an initial
\* interval <= 0, a maximum interval <= 0, or a maximum below the initial
\* interval; it passes the interval check exactly when 0 < initial <= max.
C12_OptionsValidated ==
  ctor.st \notin {"none", "options"} =>
    /\ ctor.initial <= 0 => ctor.err = "config"
    /\ ctor.max <= 0 => ctor.err = "config"
    /\ ctor.max < ctor.initial => ctor.err = "config"
    /\ ctor.err # "config" <=> (0 < ctor.initial /\ ctor.initial <= ctor.max)
    /\ ctor.err = "config" =>
         /\ ctor.st = "returned"
         /\ Len(conns) = 0
         /\ Len(hb) = 0
         /\ ctor.out = "none"
         /\ ctor.probes = 0

C12_Witness ==
  /\ ctor.st = "returned"
  /\ ctor.err = "config"
  /\ ctor.initial = maxRetryInterval
  /\ ctor.max = initialRetryInterval
  /\ ctor.urls = <<"ok", "ok">>

\* C14: when NewHttpConnection returns exactly one probe has completed, the
\* heartbeat is started only after that probe, and IsBroken() right after
\* construction (before the heartbeat has gone round) is false if and only if
\* the probe received HTTP 200, true for any other status or a transport
\* error.
C14_OneProbeThenLoop ==
  /\ ctor.st = "new" => Len(hb) = Len(conns) /\ ctor.probes = 0
  /\ ctor.st = "probed" =>
       /\ Len(hb) = Len(conns) + 1
       /\ hb[Len(hb)] = "none"
       /\ ctor.probes = 1
       /\ broken[Len(hb)] = (ctor.out # "status200")
  /\ \A i \in DOMAIN hb : hb[i] # "none" => i \in Pool
  /\ (ctor.st \in {"loop", "returned"} /\ Len(conns) > 0 /\ wait[Len(conns)] = 0) =>
       LET c == Len(conns) IN
       /\ ctor.probes = 1
       /\ hb[c] = "next"
       /\ broken[c] = FALSE <=> ctor.out = "status200"
       /\ broken[c] = TRUE <=> ctor.out \in {"status500", "transportError"}

C14_Witness ==
  /\ ctor.st = "loop"
  /\ Len(conns) = 2
  /\ wait[2] = 0
  /\ hb[2] = "next"
  /\ ctor.out = "status500"
  /\ broken[2]
  /\ ~broken[1]

\* The heartbeat goroutines of the connection that have not returned.
RunningLoops == {k \in DOMAIN hc.loops : hc.loops[k].pc # "exited"}

\* C16: at most one heartbeat loop runs on an HttpConnection at any time,
\* after any sequence of construction, HeartbeatDuration(d) calls and Close:
\* HeartbeatDuration stops the running loop before it starts the new one, so
\* probes come from the current loop only, at its period.
C16_AtMostOneLoop ==
  /\ Cardinality(RunningLoops) <= 1
  /\ \A k \in RunningLoops : k = Len(hc.loops)
  /\ \A k \in RunningLoops :
       hc.loops[k].pc \in {"select", "check", "probing"} => hc.loops[k].period = hc.dur
  /\ hc.cl = "done" => RunningLoops = {}

C16_Witness ==
  /\ Len(hc.loops) = 3
  /\ hc.loops[3].pc = "probing"
  /\ hc.loops[3].period = "3s"
  /\ hc.loops[1].period = "DefaultHeartbeatDuration"
  /\ hc.loops[2].period = "2s"

\* The callers whose Get has returned, and those inside Get.
DoneCalls == {g \in DOMAIN calls : calls[g].pc = "done"}

InsideGet == {g \in DOMAIN calls : calls[g].pc \notin {"idle", "done"}}

\* The cursor after, and the result of, the j-th Get of a sequential
\* execution on a fresh balancer with the current liveness.
RECURSIVE SeqCursor(_)
SeqCursor(j) ==
  IF j = 0 \/ LiveSet = {} THEN 0
  ELSE NextLive(SeqCursor(j - 1)) % Len(conns)

SeqResult(j) == IF LiveSet = {} THEN 0 ELSE NextLive(SeqCursor(j - 1))

\* C19: concurrent Gets are serialised by the Balancer lock: with liveness
\* unchanged, the endpoints returned by K concurrent Gets and the final
\* cursor are those of some sequential execution of the K calls; with every
\* endpoint live no rotation slot is handed to two callers before the
\* rotation wraps, and the cursor has advanced by K mod N.
C19_GetsSerialized ==
  /\ Cardinality(InsideGet) <= 1
  /\ \A g \in InsideGet : holder = g
  /\ InsideGet = {} =>
       LET m == Cardinality(DoneCalls)
           n == Len(conns)
           orders == {f \in [1 .. m -> DoneCalls] :
                        \A a, b \in 1 .. m : a # b => f[a] # f[b]}
       IN /\ idx = SeqCursor(m)
          /\ \E f \in orders : \A j \in 1 .. m : calls[f[j]].res = SeqResult(j)
          /\ AllLive =>
               /\ idx = m % n
               /\ m <= n => Cardinality({calls[g].res : g \in DoneCalls}) = m

C19_Witness ==
  /\ Len(conns) = 3
  /\ broken = <<FALSE, TRUE, FALSE>>
  /\ DoneCalls = Callers
  /\ calls[1].res = 3
  /\ calls[2].res = 1
  /\ idx = 0

\* C23: a Get that fails with ErrNoConn leaves the Balancer as it found it:
\* on an empty pool the cursor is not written, on a pool whose N endpoints
\* were all found broken the cursor has advanced N times and is back where
\* the call found it; and no step of any Get, failed or not, changes the
\* pool or an endpoint's liveness, retry interval, lock or heartbeat.
C23_FailedGetChangesNothing ==
  [][/\ ((\E g \in Callers : GetLock(g)) \/ GetStep \/ GetReturn) =>
          UNCHANGED <<conns, connVars, fails>>
     /\ \A g \in Callers : (GetLock(g) /\ Len(conns) = 0) => idx' = idx /\ holder' = 0
     /\ (GetReturn /\ gconn = 0) =>
          /\ obs.checks = Len(conns)
          /\ obs.nbroken = Len(conns)
          /\ idx = obs.start
          /\ idx' = obs.start
          /\ holder' = 0]_vars

C23_Witness ==
  /\ GetDone
  /\ gconn = 0
  /\ Len(conns) = 3
  /\ obs.start = 2
  /\ obs.nbroken = 3
  /\ idx = 2
  /\ ~obs.dirty

\* C21: a probe in flight on one endpoint (checkBroken holding that
\* endpoint's lock) stalls neither a Get nor the heartbeat of another
\* endpoint: the holder of the Balancer lock always has its next step, a
\* heartbeat's next step depends on its own endpoint's lock only, every held
\* endpoint lock is held by that endpoint's own checkBroken or Close (so
\* nothing holds two, and Get none), and hence no cycle of lock waits
\* between the Balancer lock and endpoint locks exists.
C21_NoCrossLockStall ==
  /\ holder # 0 => ENABLED (GetStep \/ GetReturn)
  /\ holder = 0 => \A g \in Callers : ENABLED GetLock(g)
  /\ \A j \in Http :
       /\ (hb[j] = "next" /\ mu[j] = "free") => ENABLED getNextInterval(j)
       /\ hb[j] = "select" => ENABLED timerFires(j)
       /\ (hb[j] = "check" /\ mu[j] = "free") => ENABLED checkBrokenLock(j)
       /\ hb[j] = "probing" => \A o \in Outcomes : ENABLED checkBroken(j, o)
  /\ \A i \in Pool :
       /\ mu[i] \in {"free", "hb", "close"}
       /\ mu[i] = "hb" <=> hb[i] = "probing"
       /\ mu[i] = "close" <=> cl[i] = "locked"

C21_Witness ==
  /\ conns = <<"http", "http">>
  /\ mu[1] = "hb"
  /\ hb[2] = "check"
  /\ mu[2] = "free"
  /\ holder # 0
  /\ ~GetDone
  /\ idx = 0
  /\ obs.checks = 1

\* C22: a probe failure never stops the heartbeat: while Close() has not
\* been called on a connection its loop has not exited (so another probe
\* follows every probe, failed or not); the loop exits only on the stop
\* signal of that connection's Close.
C22_LoopRunsUntilClose ==
  \A i \in Http : cl[i] = "idle" => hb[i] # "exited"

====
